---- MODULE Spec2Model ----
(***************************************************************************)
(* Model of the voice-transcription client: the session broadcaster hook   *)
(* (useRealTimeSharing), the page that wires it to the transcript state    *)
(* (Index) and the speech capture adapters (useSpeechRecognition).         *)
(*                                                                         *)
(* A text is a sequence of characters, so the empty string is << >>.       *)
(* React state updates and the effects they trigger run inside the action  *)
(* of the event that caused them; every channel or recognizer callback is  *)
(* a step of its own.  The continuation of send(...).then runs within the  *)
(* step on a joined channel and as a later step otherwise.                 *)
(*                                                                         *)
(* Specifications: Spec is the session life cycle of two peers,            *)
(* SessionSpec is two peers inside one session (typing, speaking,          *)
(* recording, repeated deliveries), AdapterSpec is the speech adapter with *)
(* the text timer, BufferSpec the interim/final buffering adapter, and     *)
(* HookSpec a page that mounts either of the two adapters.                 *)
(* Peers have distinct userIds.  The clock of Spec and SessionSpec stays   *)
(* below the 30 s of the adapter's text timer.                             *)
(***************************************************************************)
EXTENDS Integers, Sequences, FiniteSets, TLC

\* ------------------------------------------------------------------ bounds
MaxTicks == 1
MaxSteps == 3
MaxChans == 3
MaxInputs == 4
MaxInstances == 4
MaxResults == 2
MaxText == 3

\* -------------------------------------------------------- program constants
ThrottleMs == 1000
SmallAddition == 5
NearMs == 100

\* The clock advances by a throttle window and starts late enough that the
\* first broadcast is not throttled against lastBroadcastTimeRef = 0.
TickMs == ThrottleMs
StartTime == ThrottleMs * 2
MaxTime == StartTime + MaxTicks * TickMs

Peers == {"u1", "u2"}
SessionIds == {"s1", "s2"}
Names == {"Ann", "Bob"}
Texts == {<<"a">>, <<"a", "b">>}
Words == {<<"a">>, <<"b", "c">>}
EmptyText == << >>
NullChannel == 0

\* ----------------------------------------------------------------- state
VARIABLES
  sharing,     \* per peer: the state and refs of useRealTimeSharing
  transcript,  \* per peer: TranscriptState, [text, isRecording]
  channel,     \* per peer: the channel objects it created, pending promises,
               \* and (history) the flag and timestamp of the last two
               \* messages it handed to channel.send
  network,     \* per peer: the broadcasts the relay has queued for it: the
               \* channel object ch they go to and the event ev
  now,         \* Date.now()
  used,        \* user inputs consumed so far (bounds the exploration)
  adapter,     \* one useSpeechRecognition hook: its state, the recognizers it
               \* created, its text timer
  departed,    \* history, per peer: the users whose user_left it handled in
               \* its session and of whom it has handled no user_joined or
               \* message since
  buffer       \* one interim/final buffering useSpeechRecognition hook: its
               \* state and refs, the recognizers it created

vars ==
  <<sharing, transcript, channel, network, now, used, departed, adapter, buffer>>

SharingFields == {"userName", "sessionId", "messages", "connectedUsers",
                  "latestMessageRef", "lastBroadcastTimeRef", "isRecordingRef",
                  "sessionChannelRef", "processedMessageIds"}
TranscriptFields == {"text", "isRecording"}
ChannelFields == {"chans", "pend", "sent"}

\* ---------------------------------------------------------------- helpers
Put(f, k, v) == [x \in (DOMAIN f) \cup {k} |-> IF x = k THEN v ELSE f[x]]
Del(f, k) == [x \in (DOMAIN f) \ {k} |-> f[x]]
EmptyMap == << >>
Last(s) == s[Len(s)]

StartsWith(s, t) == Len(t) <= Len(s) /\ SubSeq(s, 1, Len(t)) = t
Abs(n) == IF n < 0 THEN -n ELSE n

\* {...prev[userId], field: value}: a missing entry spreads to nothing
Spread(users, k) == IF k \in DOMAIN users THEN users[k] ELSE EmptyMap

\* `${userId}-${now}`
MessageId(userId, t) == <<userId, t>>

NewMessage(userId, userName, text, isRecording, t) ==
  [userId |-> userId, userName |-> userName, text |-> text,
   isRecording |-> isRecording, timestamp |-> t,
   messageId |-> MessageId(userId, t)]

\* ------------------------------------------------------- channel plumbing
\* A client c is one peer's state put together with the broadcasts (out) it
\* has handed to the relay during the current step.
Subscribed(c, k) == k \in DOMAIN c.chans /\ c.chans[k].status = "subscribed"

\* supabase.removeChannel(channel)
RemoveChannel(c, k) ==
  IF k \in DOMAIN c.chans
  THEN [c EXCEPT !.chans[k].status = "removed"]
  ELSE c

\* channel.send({type: 'broadcast', event, payload}) on channel object k.
\* The relay fans a broadcast out to every channel subscribed to the topic,
\* the sender's own too (self: true).  On a channel that is no longer joined
\* the outcome is the library's: rest says whether the relay got it.
Send(c, k, ev, rest) ==
  IF Subscribed(c, k) \/ rest
  THEN [c EXCEPT !.out = Append(@,
         [topic |-> c.chans[k].topic, ev |-> ev,
          self |-> {j \in DOMAIN c.chans :
                      Subscribed(c, j) /\ c.chans[j].topic = c.chans[k].topic}])]
  ELSE c

\* ------------------------------------------- useRealTimeSharing: handlers
MessageExists(messages, m) ==
  \E i \in DOMAIN messages :
     \/ messages[i].messageId = m.messageId
     \/ messages[i].userId = m.userId /\ messages[i].timestamp = m.timestamp

\* mutant: the handler without its processed-id check
OnMessage_NoSkip(c, newMessage) ==
  [c EXCEPT
    !.processedMessageIds = @ \cup {newMessage.messageId},
    !.messages = IF MessageExists(@, newMessage) THEN @ ELSE Append(@, newMessage),
    !.connectedUsers = Put(@, newMessage.userId,
                           [name |-> newMessage.userName,
                            isRecording |-> newMessage.isRecording])]

\* .on('broadcast', {event: 'message'}, ...)
OnMessage(c, newMessage) ==
  IF newMessage.messageId \in c.processedMessageIds
  THEN c
  ELSE [c EXCEPT
         !.processedMessageIds = @ \cup {newMessage.messageId},
         !.messages = IF MessageExists(@, newMessage) THEN @
                      ELSE Append(@, newMessage),
         !.connectedUsers = Put(@, newMessage.userId,
                                [name |-> newMessage.userName,
                                 isRecording |-> newMessage.isRecording])]

\* mutant: the user_joined handler keeping the flag of an entry it replaces
OnUserJoined_KeepFlag(c, payload) ==
  [c EXCEPT !.connectedUsers =
     Put(@, payload.userId,
         [name |-> payload.userName,
          isRecording |-> IF payload.userId \in DOMAIN @
                          THEN @[payload.userId].isRecording ELSE FALSE])]

\* .on('broadcast', {event: 'user_joined'}, ...)
OnUserJoined(c, payload) ==
  [c EXCEPT !.connectedUsers =
     Put(@, payload.userId, [name |-> payload.userName, isRecording |-> FALSE])]

\* .on('broadcast', {event: 'user_left'}, ...)
OnUserLeft(c, payload) ==
  [c EXCEPT !.connectedUsers = Del(@, payload.userId)]

OnEvent(c, ev) ==
  CASE ev.event = "message" -> OnMessage(c, ev.payload)
    [] ev.event = "user_joined" -> OnUserJoined(c, ev.payload)
    [] ev.event = "user_left" -> OnUserLeft(c, ev.payload)

\* .subscribe(status => ...) with status SUBSCRIBED, for channel object k.
\* userName is the one setupRealtimeChannel closed over.
OnSubscribed(c, k) ==
  LET joined == [c EXCEPT !.chans[k].status = "subscribed"]
      sent == Send(joined, k,
                   [event |-> "user_joined",
                    payload |-> [userId |-> c.userId,
                                 userName |-> c.chans[k].userName]], TRUE)
  IN [sent EXCEPT !.sessionChannelRef = k]

\* ------------------------------------------ useRealTimeSharing: operations
setupRealtimeChannel(c, id) ==
  LET cleaned == IF c.sessionChannelRef # NullChannel
                 THEN RemoveChannel(c, c.sessionChannelRef) ELSE c
  IN [cleaned EXCEPT
       !.processedMessageIds = {},
       !.chans = Append(@, [topic |-> id, status |-> "joining",
                            userName |-> c.userName])]

EnterSession(c, id) ==
  setupRealtimeChannel(
    [c EXCEPT !.sessionId = id,
              !.connectedUsers = Put(EmptyMap, c.userId,
                                     [name |-> c.userName, isRecording |-> FALSE])],
    id)

createSession(c, newSessionId) == EnterSession(c, newSessionId)

\* mutant: joinSession without its test of the id
joinSession_NoCheck(c, id) == EnterSession(c, id)

joinSession(c, id) == IF id = "" THEN c ELSE EnterSession(c, id)

\* .then(() => {...}) of disconnectSession; removeChannel(null) throws
disconnectThen(c) ==
  IF c.sessionChannelRef = NullChannel
  THEN c
  ELSE [RemoveChannel(c, c.sessionChannelRef) EXCEPT
         !.sessionChannelRef = NullChannel,
         !.sessionId = "",
         !.messages = << >>,
         !.connectedUsers = EmptyMap]

\* .then(() => supabase.removeChannel(sessionChannelRef.current)) of the cleanup
cleanupThen(c) ==
  IF c.sessionChannelRef = NullChannel THEN c
  ELSE RemoveChannel(c, c.sessionChannelRef)

\* send(...).then(after): on a joined channel the promise of a broadcast is
\* settled when send returns, and the continuation (what) runs before any
\* other event; otherwise the message goes by request and the continuation
\* is pending until the request is over
SendThen(c, ev, rest, what) ==
  LET sent == Send(c, c.sessionChannelRef, ev, rest)
  IN IF Subscribed(c, c.sessionChannelRef)
     THEN IF what = "disconnect" THEN disconnectThen(sent)
          ELSE cleanupThen(sent)
     ELSE [sent EXCEPT !.pend = @ \cup {what}]

disconnectSession(c, rest) ==
  IF c.sessionId = "" \/ c.sessionChannelRef = NullChannel
  THEN c
  ELSE SendThen(c, [event |-> "user_left",
                    payload |-> [userId |-> c.userId, userName |-> c.userName]],
                rest, "disconnect")

\* the cleanup of the effect on [sessionId, userId, userName]; r is the render
\* the effect was created in
sessionCleanup(c, r, rest) ==
  IF r.sessionId # "" /\ c.sessionChannelRef # NullChannel
  THEN SendThen(c, [event |-> "user_left",
                    payload |-> [userId |-> c.userId, userName |-> r.userName]],
                rest, "cleanup")
  ELSE c

updateUserName(c, newName) ==
  IF newName = "" THEN c
  ELSE LET named == [c EXCEPT !.userName = newName]
       IN IF c.sessionId # ""
          THEN [named EXCEPT !.connectedUsers =
                  Put(@, c.userId, Put(Spread(@, c.userId), "name", newName))]
          ELSE named

\* history: message m was handed to channel.send
Sent(sent, m) ==
  LET e == [text |-> m.text, isRecording |-> m.isRecording,
            timestamp |-> m.timestamp]
  IN IF Len(sent) < 2 THEN Append(sent, e) ELSE <<sent[2], e>>

\* mutant: every text taken for a changed one
textChanged_Always(c, text) == TRUE

\* const textChanged = text !== latestMessageRef.current
textChanged(c, text) == text # c.latestMessageRef

\* const recordingStatusChanged = isRecording !== isRecordingRef.current
recordingStatusChanged(c, isRecording) == isRecording # c.isRecordingRef

\* mutant: the throttle with its comparison turned around
shouldThrottle_Inverted(c, isRecording, t) ==
  /\ isRecording = c.isRecordingRef
  /\ t - c.lastBroadcastTimeRef > ThrottleMs

\* mutant: the throttle applied to changes of the recording status too
shouldThrottle_Always(c, isRecording, t) ==
  t - c.lastBroadcastTimeRef < ThrottleMs

\* const shouldThrottle = !recordingStatusChanged && (now - last < 1000)
shouldThrottle(c, isRecording, t) ==
  /\ isRecording = c.isRecordingRef
  /\ t - c.lastBroadcastTimeRef < ThrottleMs

\* broadcastMessage as created in render r (its userName and sessionId);
\* the refs are read live, t is Date.now()
broadcastMessage(c, r, text, isRecording, t, rest) ==
  IF r.sessionId = "" \/ c.sessionChannelRef = NullChannel THEN c
  ELSE
    IF \/ ~textChanged(c, text) /\ ~recordingStatusChanged(c, isRecording)
       \/ shouldThrottle(c, isRecording, t)
       THEN c
       ELSE
         LET newMessage == NewMessage(c.userId, r.userName, text, isRecording, t)
             messageExists ==
               \E i \in DOMAIN c.messages :
                  \/ c.messages[i].messageId = newMessage.messageId
                  \/ /\ c.messages[i].userId = c.userId
                     /\ Abs(c.messages[i].timestamp - t) < NearMs
                     /\ c.messages[i].text = text
             marked == [c EXCEPT
                          !.latestMessageRef = text,
                          !.isRecordingRef = isRecording,
                          !.lastBroadcastTimeRef = t,
                          !.processedMessageIds = @ \cup {newMessage.messageId},
                          !.sent = Sent(@, newMessage)]
             sent == Send(marked, c.sessionChannelRef,
                          [event |-> "message", payload |-> newMessage], rest)
         IN [sent EXCEPT
              !.messages = IF messageExists THEN @ ELSE Append(@, newMessage),
              !.connectedUsers =
                 Put(@, c.userId,
                     Put(Spread(@, c.userId), "isRecording", isRecording))]

updateTranscription(c, r, text, t, rest) ==
  IF r.sessionId = "" THEN c
  ELSE IF text = c.latestMessageRef THEN c
  ELSE IF /\ StartsWith(text, c.latestMessageRef)
          /\ Len(text) - Len(c.latestMessageRef) < SmallAddition
          /\ t - c.lastBroadcastTimeRef < ThrottleMs
       THEN c
  ELSE broadcastMessage(c, r, text, c.isRecordingRef, t, rest)

\* messages.find(msg => msg.userId === userId): the first match
FindOwn(messages, userId) ==
  LET own == {i \in DOMAIN messages : messages[i].userId = userId}
  IN IF own = {} THEN 0 ELSE CHOOSE i \in own : \A j \in own : i <= j

updateRecordingStatus(c, r, isRecording, t, rest) ==
  IF r.sessionId = "" \/ isRecording = c.isRecordingRef THEN c
  ELSE LET i == FindOwn(r.messages, c.userId)
           currentText == IF i = 0 THEN EmptyText ELSE r.messages[i].text
       IN broadcastMessage(c, r, currentText, isRecording, t, rest)

\* ------------------------------------------------- useSpeechRecognition
\* what the page sees of the hook's setText and resetText: the text is
\* replaced (the clock of this part stays below the 30 s of the text timer)
setText(c, newText) == [c EXCEPT !.text = newText]

\* ------------------------------------- useSpeechRecognition: the adapter
\* A recognizer is idle, listening, or stopping (stop() was called or an
\* error occurred, and its end event is due); isRecording is the flag its
\* handlers closed over when the effect created it.
NewInstance(isRecording) == [isRecording |-> isRecording, status |-> "idle"]

\* start() throws InvalidStateError on a recognizer that has not ended
CanStart(inst) == inst.status = "idle"
start(inst) == [inst EXCEPT !.status = "listening"]
stop(inst) == IF inst.status = "listening" THEN [inst EXCEPT !.status = "stopping"] ELSE inst

\* textTimeoutRef: window.setTimeout(() => { if (!isRecording) setText('') })
\* with the isRecording of the closure that set it, or cleared
Unarmed == [armed |-> FALSE, isRecording |-> FALSE]
Armed(isRecording) == [armed |-> TRUE, isRecording |-> isRecording]

\* the state after the first run of the effect
Mounted ==
  [text |-> EmptyText, isRecording |-> FALSE, recognition |-> 1,
   instances |-> <<NewInstance(FALSE)>>, timer |-> Unarmed,
   lastEvent |-> [resultIndex |-> 0, results |-> << >>]]

\* the state after the first run of the effect in a browser without
\* SpeechRecognition: the effect returns before it creates a recognizer
Unsupported ==
  [text |-> EmptyText, isRecording |-> FALSE, recognition |-> 0,
   instances |-> << >>, timer |-> Unarmed,
   lastEvent |-> [resultIndex |-> 0, results |-> << >>]]

\* the effect on [isRecording]: the cleanup of its last run stops the
\* recognizer that run created and clears the timer, then the effect creates
\* a recognizer with handlers of the new render
RecognitionEffect(a) ==
  LET i == Len(a.instances)
  IN [a EXCEPT !.instances = Append([@ EXCEPT ![i] = stop(@)],
                                    NewInstance(a.isRecording)),
               !.timer = Unarmed,
               !.recognition = i + 1]

setIsRecording(a, isRecording) ==
  IF a.isRecording = isRecording THEN a
  ELSE RecognitionEffect([a EXCEPT !.isRecording = isRecording])

\* mutant: a start() that throws still counted as a start, the catch block
\* setting the flag and clearing the timer
startRecording_FlagOnThrow(a) ==
  IF a.recognition = 0 THEN a
  ELSE setIsRecording([a EXCEPT !.instances[a.recognition] =
                                   IF CanStart(@) THEN start(@) ELSE @,
                                !.timer = Unarmed], TRUE)

startRecording(a) ==
  IF a.recognition = 0 \/ ~CanStart(a.instances[a.recognition]) THEN a
  ELSE setIsRecording([a EXCEPT !.instances[a.recognition] = start(@),
                                !.timer = Unarmed], TRUE)

stopRecording(a) ==
  IF a.recognition = 0 THEN a
  ELSE setIsRecording([a EXCEPT !.instances[a.recognition] = stop(@),
                                !.timer = Armed(a.isRecording)], FALSE)

toggleRecording(a) == IF a.isRecording THEN stopRecording(a) ELSE startRecording(a)

\* mutant: the loop starting at the first result instead of resultIndex
RECURSIVE Transcribe_FromStart(_, _, _)
Transcribe_FromStart(results, i, transcribed) ==
  IF results = << >> THEN transcribed
  ELSE Transcribe_FromStart(Tail(results), i, transcribed \o Head(results).alternatives[1])

\* for (let i = event.resultIndex; i < event.results.length; i++)
\*   transcript += event.results[i][0].transcript
\* (results[i] of the code is results[i + 1] here)
RECURSIVE Transcribe(_, _, _)
Transcribe(results, i, transcribed) ==
  IF i < Len(results)
  THEN Transcribe(results, i + 1, transcribed \o results[i + 1].alternatives[1])
  ELSE transcribed

\* recognitionInstance.onresult of recognizer i
onresult(a, i, event) ==
  [a EXCEPT !.text = Transcribe(event.results, event.resultIndex, EmptyText),
            !.timer = IF ~a.instances[i].isRecording
                      THEN Armed(a.instances[i].isRecording) ELSE Unarmed]

\* recognitionInstance.onerror of recognizer i
onerror(a, i) == setIsRecording(a, FALSE)

\* recognitionInstance.onend of recognizer i, which has ended
onend(a, i) ==
  LET ended == [a EXCEPT !.instances[i].status = "idle"]
  IN IF a.instances[i].isRecording
     THEN [ended EXCEPT !.instances[i] = start(@)]
     ELSE [ended EXCEPT !.timer = Armed(a.instances[i].isRecording)]

\* the callback of the text timer
onTimeout(a) ==
  [a EXCEPT !.timer = Unarmed,
            !.text = IF ~a.timer.isRecording THEN EmptyText ELSE @]

resetText(a) == [a EXCEPT !.text = EmptyText, !.timer = Unarmed]

updateText(a, newText) ==
  [a EXCEPT !.text = newText,
            !.timer = IF ~a.isRecording THEN Armed(a.isRecording) ELSE Unarmed]

\* --------------- useSpeechRecognition: the interim/final buffering adapter
\* prevText.includes(part), prevText.replace(part, by): the first occurrence
IndexOf(s, t) ==
  LET at == {i \in 0..(Len(s) - Len(t)) : SubSeq(s, i + 1, i + Len(t)) = t}
  IN IF at = {} THEN -1 ELSE CHOOSE i \in at : \A j \in at : i <= j

Includes(s, t) == IndexOf(s, t) >= 0

Replace(s, t, by) ==
  LET i == IndexOf(s, t)
  IN IF i < 0 THEN s
     ELSE SubSeq(s, 1, i) \o by \o SubSeq(s, i + Len(t) + 1, Len(s))

\* prevText ? `${prevText} ${part}` : part
JoinText(prevText, part) ==
  IF prevText # EmptyText THEN prevText \o <<" ">> \o part ELSE part

\* history: the run of interim result events in progress, n of them, and the
\* text before the first
NoRun == [n |-> 0, start |-> EmptyText]

\* the state after the first run of the effect
BufferMounted ==
  [text |-> EmptyText, isRecording |-> FALSE, recognition |-> 1,
   instances |-> <<NewInstance(FALSE)>>,
   previousTranscriptionsRef |-> {}, lastTranscriptRef |-> EmptyText,
   run |-> NoRun]

\* the effect on [isRecording]: its cleanup stops recognitionRef.current, then
\* the effect puts a new recognizer with handlers of the new render there
RecognitionEffectBuffered(b) ==
  LET i == b.recognition
  IN [b EXCEPT !.instances = Append([@ EXCEPT ![i] = stop(@)],
                                    NewInstance(b.isRecording)),
               !.recognition = Len(b.instances) + 1]

setIsRecordingBuffered(b, isRecording) ==
  IF b.isRecording = isRecording THEN b
  ELSE RecognitionEffectBuffered([b EXCEPT !.isRecording = isRecording])

\* start() throwing InvalidStateError still sets the flag
startRecordingBuffered(b) ==
  IF b.recognition = 0 THEN b
  ELSE setIsRecordingBuffered(
         [b EXCEPT !.instances[b.recognition] = IF CanStart(@) THEN start(@) ELSE @],
         TRUE)

stopRecordingBuffered(b) ==
  IF b.recognition = 0 THEN b
  ELSE setIsRecordingBuffered([b EXCEPT !.instances[b.recognition] = stop(@)], FALSE)

toggleRecordingBuffered(b) ==
  IF b.isRecording THEN stopRecordingBuffered(b) ELSE startRecordingBuffered(b)

\* for (let i = resultIndex; i < results.length; i++)
\*   if (results[i].isFinal) finalTranscript += ... else interimTranscript += ...
\* : the transcripts of the results that are final (or of those that are not)
RECURSIVE TranscribeBuffered(_, _, _, _)
TranscribeBuffered(results, i, isFinal, transcribed) ==
  IF i < Len(results)
  THEN TranscribeBuffered(results, i + 1, isFinal,
         IF results[i + 1].isFinal = isFinal
         THEN transcribed \o results[i + 1].alternatives[1] ELSE transcribed)
  ELSE transcribed

\* recognitionRef.current.onresult
onresultBuffered(b, event) ==
  LET interimTranscript ==
        TranscribeBuffered(event.results, event.resultIndex, FALSE, EmptyText)
      finalTranscript ==
        TranscribeBuffered(event.results, event.resultIndex, TRUE, EmptyText)
      shown == IF interimTranscript # EmptyText
               THEN [b EXCEPT !.text = JoinText(@, interimTranscript)] ELSE b
  IN IF finalTranscript # EmptyText
        /\ finalTranscript \notin b.previousTranscriptionsRef
     THEN [shown EXCEPT
            !.text = IF Includes(@, interimTranscript)
                     THEN Replace(@, interimTranscript, finalTranscript)
                     ELSE JoinText(@, finalTranscript),
            !.previousTranscriptionsRef = @ \cup {finalTranscript},
            !.lastTranscriptRef = finalTranscript]
     ELSE shown

\* mutant: the handler stopping on no-speech as on any other error
onerrorBuffered_NoSpeechStops(b, error) == stopRecordingBuffered(b)

\* recognitionRef.current.onerror
onerrorBuffered(b, error) ==
  IF error = "no-speech" THEN b ELSE stopRecordingBuffered(b)

\* recognitionRef.current.onend of recognizer i, which has ended: it starts
\* recognitionRef.current, and start() on a started recognizer throws
onendBuffered(b, i) ==
  LET ended == [b EXCEPT !.instances[i].status = "idle"]
  IN IF b.instances[i].isRecording /\ b.recognition # 0
     THEN [ended EXCEPT !.instances[b.recognition] =
                           IF CanStart(@) THEN start(@) ELSE @]
     ELSE ended

resetTextBuffered(b) ==
  [b EXCEPT !.text = EmptyText, !.lastTranscriptRef = EmptyText,
            !.previousTranscriptionsRef = {}]

updateTextBuffered(b, newText) == [b EXCEPT !.text = newText]

\* ---------------------------------------------------------- Index: effects
\* dependency lists of the effects, read off a render
LeaveDeps(r) == <<r.sessionId, r.userName>>
RecordingDeps(r) == <<r.isRecording, r.userName, r.sessionId, r.messages>>
TextDeps(r) == <<r.text, r.userName, r.sessionId>>
LatestDeps(r) == <<r.messages, r.isRecording>>

\* useEffect(() => updateRecordingStatus(isRecording), ...)
RecordingEffect(c, r, t, rest) == updateRecordingStatus(c, r, r.isRecording, t, rest)

\* useEffect(() => { if (text) updateTranscription(text) }, ...)
TextEffect(c, r, t, rest) ==
  IF r.text # EmptyText THEN updateTranscription(c, r, r.text, t, rest) ELSE c

\* mutant: the effect without its check of the entry's userId
LatestMessageEffect_AnyUser(c, r) ==
  IF Len(r.messages) > 0 /\ Last(r.messages).text # EmptyText
  THEN setText(c, Last(r.messages).text)
  ELSE c

\* mutant: the effect without its check that the entry has a text
LatestMessageEffect_EmptyToo(c, r) ==
  IF Len(r.messages) > 0 /\ Last(r.messages).userId # c.userId
  THEN setText(c, Last(r.messages).text)
  ELSE c

\* useEffect(() => {...setText(latestMessage.text)...}, [messages, userId, setText])
LatestMessageEffect(c, r) ==
  IF Len(r.messages) > 0
     /\ Last(r.messages).userId # c.userId
     /\ Last(r.messages).text # EmptyText
  THEN setText(c, Last(r.messages).text)
  ELSE c

\* One commit: the cleanups and effects whose dependencies differ from the
\* previous render (prev), each closed over the new render; state set by an
\* effect renders again.
RECURSIVE Effects(_, _, _, _)
Effects(prev, c, t, rest) ==
  LET r == c
      c1 == IF LeaveDeps(prev) # LeaveDeps(r) THEN sessionCleanup(c, prev, rest) ELSE c
      c2 == IF RecordingDeps(prev) # RecordingDeps(r)
            THEN RecordingEffect(c1, r, t, rest) ELSE c1
      c3 == IF TextDeps(prev) # TextDeps(r) THEN TextEffect(c2, r, t, rest) ELSE c2
      c4 == IF LatestDeps(prev) # LatestDeps(r) THEN LatestMessageEffect(c3, r) ELSE c3
  IN IF /\ LeaveDeps(c4) = LeaveDeps(r)
        /\ RecordingDeps(c4) = RecordingDeps(r)
        /\ TextDeps(c4) = TextDeps(r)
        /\ LatestDeps(c4) = LatestDeps(r)
     THEN c4
     ELSE Effects(r, c4, t, rest)

\* const handleTextChange = (newText) => { setText(newText); updateTranscription(newText) }
handleTextChange(c, newText, t, rest) ==
  updateTranscription(setText(c, newText), c, newText, t, rest)

\* ------------------------------------------------------------ the machine
Client(p) ==
  sharing[p] @@ transcript[p] @@ channel[p] @@ [userId |-> p, out |-> << >>]

RECURSIVE Ascending(_)
Ascending(S) ==
  IF S = {} THEN << >>
  ELSE LET m == CHOOSE x \in S : \A y \in S : x <= y
       IN <<m>> \o Ascending(S \ {m})

\* the channel objects of peer q that the relay delivers broadcast o of peer
\* p to: those subscribed to its topic when it was sent
Recipients(p, q, o) ==
  IF q = p THEN o.self
  ELSE {j \in DOMAIN channel[q].chans :
          /\ channel[q].chans[j].status = "subscribed"
          /\ channel[q].chans[j].topic = o.topic}

\* what the relay queues for peer q of out[i..] of client c of peer p; one
\* connection per peer carries its deliveries in the order they were sent
RECURSIVE Routed(_, _, _, _)
Routed(p, c, q, i) ==
  IF i > Len(c.out) THEN << >>
  ELSE LET ks == Ascending(Recipients(p, q, c.out[i]))
       IN [n \in DOMAIN ks |->
             [ch |-> ks[n], ev |-> c.out[i].ev]]
          \o Routed(p, c, q, i + 1)

\* peer p's state becomes c, the head of its queue is consumed when taken,
\* and what it sent is queued; the rest is left alone
Commit(p, c, taken) ==
  /\ sharing' = [sharing EXCEPT ![p] = [f \in SharingFields |-> c[f]]]
  /\ transcript' = [transcript EXCEPT ![p] = [f \in TranscriptFields |-> c[f]]]
  /\ channel' = [channel EXCEPT ![p] = [f \in ChannelFields |-> c[f]]]
  /\ network' = [q \in Peers |->
                   (IF q = p /\ taken THEN Tail(network[q]) ELSE network[q])
                   \o Routed(p, c, q, 1)]
  /\ UNCHANGED <<adapter, buffer>>

\* a step of peer p that takes nothing from its queue
Step(p, c) == Commit(p, c, FALSE) /\ UNCHANGED departed

Spend == used' = used + 1

Init ==
  /\ sharing = [p \in Peers |->
       [userName |-> IF p = "u1" THEN "Ann" ELSE "Bob",
        sessionId |-> "", messages |-> << >>, connectedUsers |-> EmptyMap,
        latestMessageRef |-> EmptyText, lastBroadcastTimeRef |-> 0,
        isRecordingRef |-> FALSE, sessionChannelRef |-> NullChannel,
        processedMessageIds |-> {}]]
  /\ transcript = [p \in Peers |-> [text |-> EmptyText, isRecording |-> FALSE]]
  /\ channel = [p \in Peers |-> [chans |-> << >>, pend |-> {}, sent |-> << >>]]
  /\ network = [p \in Peers |-> << >>]
  /\ now = StartTime
  /\ used = 0
  /\ departed = [p \in Peers |-> {}]
  /\ adapter = Mounted
  /\ buffer = BufferMounted

\* time passes
Tick ==
  /\ now < MaxTime
  /\ now' = now + TickMs
  /\ Spend
  /\ UNCHANGED <<sharing, transcript, channel, network, departed, adapter, buffer>>

CreateSession(p, id, rest) ==
  /\ Len(channel[p].chans) < MaxChans
  /\ "cleanup" \notin channel[p].pend
  /\ Commit(p, Effects(Client(p), createSession(Client(p), id), now, rest), FALSE)
  /\ departed' = [departed EXCEPT ![p] = {}]
  /\ Spend
  /\ UNCHANGED now

JoinSession(p, id, rest) ==
  /\ Len(channel[p].chans) < MaxChans
  /\ "cleanup" \notin channel[p].pend
  /\ Commit(p, Effects(Client(p), joinSession(Client(p), id), now, rest), FALSE)
  /\ departed' = [departed EXCEPT ![p] = IF id = "" THEN @ ELSE {}]
  /\ Spend
  /\ UNCHANGED now

ChannelSubscribed(p, k) ==
  /\ k \in DOMAIN channel[p].chans
  /\ channel[p].chans[k].status = "joining"
  /\ Step(p, Effects(Client(p), OnSubscribed(Client(p), k), now, TRUE))
  /\ UNCHANGED <<now, used>>

\* the relay hands peer p the head of its queue.  again: the relay will
\* deliver it once more.  heard: a channel that was removed since the event
\* was sent still passes it to its handlers (it may not have left yet).
Deliver(p, again, heard, rest) ==
  /\ network[p] # << >>
  /\ LET c == Client(p)
         d == Head(network[p])
         handles == Subscribed(c, d.ch) \/ heard
         handled == IF handles THEN OnEvent(c, d.ev) ELSE c
     IN /\ Commit(p, Effects(c, handled, now, rest), ~again)
        /\ departed' = [departed EXCEPT ![p] =
              IF ~handles THEN @
              ELSE IF d.ev.event = "user_left" THEN @ \cup {d.ev.payload.userId}
              ELSE IF d.ev.event = "user_joined" THEN @ \ {d.ev.payload.userId}
              ELSE IF d.ev.payload.messageId \in c.processedMessageIds THEN @
              ELSE @ \ {d.ev.payload.userId}]
  /\ UNCHANGED <<now, used>>

DisconnectSession(p, rest) ==
  /\ "disconnect" \notin channel[p].pend
  /\ sharing[p].sessionId # "" /\ sharing[p].sessionChannelRef # NullChannel
  /\ Step(p, Effects(Client(p), disconnectSession(Client(p), rest), now, rest))
  /\ UNCHANGED <<now, used>>

DisconnectThen(p, rest) ==
  /\ "disconnect" \in channel[p].pend
  /\ LET c == [Client(p) EXCEPT !.pend = @ \ {"disconnect"}]
     IN Step(p, Effects(Client(p), disconnectThen(c), now, rest))
  /\ UNCHANGED <<now, used>>

CleanupThen(p) ==
  /\ "cleanup" \in channel[p].pend
  /\ LET c == [Client(p) EXCEPT !.pend = @ \ {"cleanup"}]
     IN Step(p, cleanupThen(c))
  /\ UNCHANGED <<now, used>>

UpdateUserName(p, newName, rest) ==
  /\ "cleanup" \notin channel[p].pend
  /\ Step(p, Effects(Client(p), updateUserName(Client(p), newName), now, rest))
  /\ Spend
  /\ UNCHANGED now

\* recognitionInstance.onresult: setText(transcript)
RecognizerResult(p, text, rest) ==
  /\ Step(p, Effects(Client(p), setText(Client(p), text), now, rest))
  /\ Spend
  /\ UNCHANGED now

HandleTextChange(p, newText, rest) ==
  /\ Step(p, Effects(Client(p), handleTextChange(Client(p), newText, now, rest),
                     now, rest))
  /\ Spend
  /\ UNCHANGED now

HandleReset(p, rest) ==
  /\ transcript[p].text # EmptyText
  /\ Step(p, Effects(Client(p), setText(Client(p), EmptyText), now, rest))
  /\ UNCHANGED <<now, used>>

\* toggleRecording, as far as the page sees it: the recording flag flips
ToggleRecording(p, rest) ==
  /\ Step(p, Effects(Client(p), [Client(p) EXCEPT !.isRecording = ~@], now, rest))
  /\ Spend
  /\ UNCHANGED now

Next ==
  \/ used < MaxSteps /\ Tick
  \/ \E p \in Peers, id \in SessionIds, rest \in BOOLEAN :
        used < MaxSteps /\ CreateSession(p, id, rest)
  \/ \E p \in Peers, id \in SessionIds \cup {""}, rest \in BOOLEAN :
        used < MaxSteps /\ JoinSession(p, id, rest)
  \/ \E p \in Peers, k \in 1..MaxChans : ChannelSubscribed(p, k)
  \/ \E p \in Peers, heard, rest \in BOOLEAN : Deliver(p, FALSE, heard, rest)
  \/ \E p \in Peers, rest \in BOOLEAN : DisconnectSession(p, rest)
  \/ \E p \in Peers, rest \in BOOLEAN : DisconnectThen(p, rest)
  \/ \E p \in Peers : CleanupThen(p)
  \/ \E p \in Peers, n \in Names \cup {""}, rest \in BOOLEAN :
        used < MaxSteps /\ UpdateUserName(p, n, rest)
  \/ \E p \in Peers, rest \in BOOLEAN :
        used < MaxSteps /\ RecognizerResult(p, <<"a">>, rest)
  \/ \E p \in Peers, text \in {<<"a">>, EmptyText}, rest \in BOOLEAN :
        used < MaxSteps /\ HandleTextChange(p, text, rest)
  \/ \E p \in Peers, rest \in BOOLEAN : HandleReset(p, rest)
  \/ \E p \in Peers, rest \in BOOLEAN : used < MaxSteps /\ ToggleRecording(p, rest)

\* The session life cycle: create, join, subscribe, rename, leave.
Spec == Init /\ [][Next]_vars

\* ------------------------------------------------------ inside one session
\* Both peers have joined session s1, u1 first, and every announcement has
\* been delivered (Spec reaches this state: JoinedReached).
Joined ==
  /\ sharing = [p \in Peers |->
       [userName |-> IF p = "u1" THEN "Ann" ELSE "Bob",
        sessionId |-> "s1", messages |-> << >>,
        connectedUsers |->
          IF p = "u1"
          THEN Put(Put(EmptyMap, "u1", [name |-> "Ann", isRecording |-> FALSE]),
                   "u2", [name |-> "Bob", isRecording |-> FALSE])
          ELSE Put(EmptyMap, "u2", [name |-> "Bob", isRecording |-> FALSE]),
        latestMessageRef |-> EmptyText, lastBroadcastTimeRef |-> 0,
        isRecordingRef |-> FALSE, sessionChannelRef |-> 1,
        processedMessageIds |-> {}]]
  /\ transcript = [p \in Peers |-> [text |-> EmptyText, isRecording |-> FALSE]]
  /\ channel = [p \in Peers |->
       [chans |-> <<[topic |-> "s1", status |-> "subscribed",
                     userName |-> IF p = "u1" THEN "Ann" ELSE "Bob"]>>,
        pend |-> {}, sent |-> << >>]]
  /\ network = [p \in Peers |-> << >>]
  /\ now = StartTime

JoinedInit ==
  /\ Joined /\ used = 0 /\ departed = [p \in Peers |-> {}]
  /\ adapter = Mounted /\ buffer = BufferMounted

SessionNext ==
  \/ Tick
  \/ \E p \in Peers, again \in BOOLEAN : Deliver(p, again, TRUE, TRUE)
  \/ \E p \in Peers, text \in Texts : used < MaxInputs /\ RecognizerResult(p, text, TRUE)
  \/ \E p \in Peers, text \in Texts \cup {EmptyText} :
        used < MaxInputs /\ HandleTextChange(p, text, TRUE)
  \/ \E p \in Peers : HandleReset(p, TRUE)
  \/ \E p \in Peers : used < MaxInputs /\ ToggleRecording(p, TRUE)

SessionSpec == JoinedInit /\ [][SessionNext]_vars

\* ------------------------------------------------- the adapter by itself
\* what one result of a recognizer can be: one or two alternatives, interim
\* or final
Alternatives == {<<w>> : w \in Words} \cup {<<v, w>> : v, w \in Words}
Results == [isFinal : BOOLEAN, alternatives : Alternatives]
Events ==
  {[resultIndex |-> k, results |-> rs] :
     k \in 0..(MaxResults - 1),
     rs \in UNION {[1..n -> Results] : n \in 1..MaxResults}}

NoEvent == [resultIndex |-> 0, results |-> << >>]

\* the adapter becomes a; heard is the result event that set its text, if a
\* result event did
AdapterStep(a, heard) ==
  /\ adapter' = [a EXCEPT !.lastEvent = heard]
  /\ UNCHANGED <<sharing, transcript, channel, network, now, used, departed, buffer>>

StartRecording ==
  /\ Len(adapter.instances) < MaxInstances
  /\ AdapterStep(startRecording(adapter), adapter.lastEvent)

StopRecording ==
  /\ Len(adapter.instances) < MaxInstances
  /\ AdapterStep(stopRecording(adapter), adapter.lastEvent)

ToggleAdapter ==
  /\ Len(adapter.instances) < MaxInstances
  /\ AdapterStep(toggleRecording(adapter), adapter.lastEvent)

\* a recognizer that is listening or was told to stop hands over a result
RecognitionResult(i, event) ==
  /\ i \in DOMAIN adapter.instances
  /\ adapter.instances[i].status # "idle"
  /\ event.resultIndex < Len(event.results)
  /\ AdapterStep(onresult(adapter, i, event), event)

\* a recognizer that has not ended fails: error, and its end event will
\* follow
RecognitionError(i) ==
  /\ i \in DOMAIN adapter.instances
  /\ adapter.instances[i].status # "idle"
  /\ Len(adapter.instances) < MaxInstances
  /\ AdapterStep(onerror([adapter EXCEPT !.instances[i].status = "stopping"], i),
                 adapter.lastEvent)

\* a recognizer ends: it was stopped, it failed, or it gave up by itself
RecognitionEnd(i) ==
  /\ i \in DOMAIN adapter.instances
  /\ adapter.instances[i].status # "idle"
  /\ AdapterStep(onend(adapter, i), adapter.lastEvent)

TextTimeout ==
  /\ adapter.timer.armed
  /\ AdapterStep(onTimeout(adapter), IF adapter.timer.isRecording
                                     THEN adapter.lastEvent ELSE NoEvent)

UpdateText(newText) == AdapterStep(updateText(adapter, newText), NoEvent)

ResetText == AdapterStep(resetText(adapter), NoEvent)

AdapterNext ==
  \/ StartRecording
  \/ StopRecording
  \/ ToggleAdapter
  \/ \E i \in 1..MaxInstances, event \in Events : RecognitionResult(i, event)
  \/ \E i \in 1..MaxInstances : RecognitionError(i)
  \/ \E i \in 1..MaxInstances : RecognitionEnd(i)
  \/ TextTimeout
  \/ \E newText \in Texts : UpdateText(newText)
  \/ ResetText

AdapterSpec == Init /\ [][AdapterNext]_vars

\* the adapter in either kind of browser: with a recognizer, or without one
SupportInit ==
  /\ sharing = [p \in Peers |->
       [userName |-> IF p = "u1" THEN "Ann" ELSE "Bob",
        sessionId |-> "", messages |-> << >>, connectedUsers |-> EmptyMap,
        latestMessageRef |-> EmptyText, lastBroadcastTimeRef |-> 0,
        isRecordingRef |-> FALSE, sessionChannelRef |-> NullChannel,
        processedMessageIds |-> {}]]
  /\ transcript = [p \in Peers |-> [text |-> EmptyText, isRecording |-> FALSE]]
  /\ channel = [p \in Peers |-> [chans |-> << >>, pend |-> {}, sent |-> << >>]]
  /\ network = [p \in Peers |-> << >>]
  /\ now = StartTime
  /\ used = 0
  /\ departed = [p \in Peers |-> {}]
  /\ adapter \in {Mounted, Unsupported}
  /\ buffer = BufferMounted

SupportSpec == SupportInit /\ [][AdapterNext]_vars

\* ------------------------------------- the buffering adapter by itself
\* maxAlternatives = 1: a result has one alternative
BufferResults == [isFinal : BOOLEAN, alternatives : {<<w>> : w \in Words}]
BufferEvents ==
  {[resultIndex |-> k, results |-> rs] :
     k \in 0..(MaxResults - 1),
     rs \in UNION {[1..n -> BufferResults] : n \in 1..MaxResults}}

ErrorKinds == {"no-speech", "audio-capture", "network", "aborted"}

\* every result the event hands over is interim (or every one final)
AllResults(event, isFinal) ==
  \A n \in (event.resultIndex + 1)..Len(event.results) :
     event.results[n].isFinal = isFinal

\* the buffering hook becomes b, with the run of interim events as given
BufferStep(b, run) ==
  /\ buffer' = [b EXCEPT !.run = run]
  /\ UNCHANGED <<sharing, transcript, channel, network, now, used, departed, adapter>>

BufferStart ==
  /\ Len(buffer.instances) < MaxInstances
  /\ BufferStep(startRecordingBuffered(buffer), buffer.run)

BufferStop ==
  /\ Len(buffer.instances) < MaxInstances
  /\ BufferStep(stopRecordingBuffered(buffer), buffer.run)

BufferToggle ==
  /\ Len(buffer.instances) < MaxInstances
  /\ BufferStep(toggleRecordingBuffered(buffer), buffer.run)

\* a recognizer that is listening or was told to stop hands over a result
BufferResult(i, event) ==
  /\ i \in DOMAIN buffer.instances
  /\ buffer.instances[i].status # "idle"
  /\ event.resultIndex < Len(event.results)
  /\ Len(buffer.text) <= MaxText
  /\ BufferStep(onresultBuffered(buffer, event),
                IF AllResults(event, FALSE)
                THEN [n |-> IF buffer.run.n < MaxResults THEN buffer.run.n + 1
                            ELSE buffer.run.n,
                      start |-> IF buffer.run.n = 0 THEN buffer.text
                                ELSE buffer.run.start]
                ELSE NoRun)

\* a recognizer that has not ended reports an error; after any but
\* no-speech it ends
BufferError(i, error) ==
  /\ i \in DOMAIN buffer.instances
  /\ buffer.instances[i].status # "idle"
  /\ Len(buffer.instances) < MaxInstances
  /\ BufferStep(onerrorBuffered(
                  IF error = "no-speech" THEN buffer
                  ELSE [buffer EXCEPT !.instances[i].status = "stopping"], error),
                buffer.run)

BufferEnd(i) ==
  /\ i \in DOMAIN buffer.instances
  /\ buffer.instances[i].status # "idle"
  /\ BufferStep(onendBuffered(buffer, i), buffer.run)

BufferUpdateText(newText) == BufferStep(updateTextBuffered(buffer, newText), NoRun)

BufferReset == BufferStep(resetTextBuffered(buffer), NoRun)

BufferNext ==
  \/ BufferStart
  \/ BufferStop
  \/ BufferToggle
  \/ \E i \in 1..MaxInstances, event \in BufferEvents : BufferResult(i, event)
  \/ \E i \in 1..MaxInstances, error \in ErrorKinds : BufferError(i, error)
  \/ \E i \in 1..MaxInstances : BufferEnd(i)
  \/ \E newText \in Texts : BufferUpdateText(newText)
  \/ BufferReset

BufferSpec == Init /\ [][BufferNext]_vars

\* ------------------------------------------- a page with either adapter
\* the page mounts one of the two hooks: the other stays as it was mounted
HookNext ==
  \/ buffer = BufferMounted /\ AdapterNext
  \/ adapter = Mounted /\ BufferNext

HookSpec == Init /\ [][HookNext]_vars

\* ------------------------------------------------------------- properties
InSession(p) ==
  /\ sharing[p].sessionId # ""
  /\ sharing[p].sessionChannelRef # NullChannel
  /\ Subscribed(channel[p], sharing[p].sessionChannelRef)

\* nothing is in flight and nothing is pending: every broadcast was delivered
Quiescent ==
  /\ \A p \in Peers : network[p] = << >> /\ channel[p].pend = {}
  /\ \A p \in Peers : \A k \in DOMAIN channel[p].chans :
        channel[p].chans[k].status # "joining"

\* C1: a peer's messages list never holds two entries with the same
\* messageId, whatever is delivered, twice or echoed; and the delivery of a
\* message whose id the peer has processed changes neither its messages nor
\* its connectedUsers.
NoDuplicateMessageIds ==
  \A p \in Peers : \A i, j \in DOMAIN sharing[p].messages :
     i # j => sharing[p].messages[i].messageId # sharing[p].messages[j].messageId

ProcessedDeliveryIgnored ==
  \A p \in Peers : \A again \in BOOLEAN :
     (/\ network[p] # << >>
      /\ Head(network[p]).ev.event = "message"
      /\ Head(network[p]).ev.payload.messageId \in sharing[p].processedMessageIds
      /\ Deliver(p, again, TRUE, TRUE))
     => /\ sharing'[p].messages = sharing[p].messages
        /\ sharing'[p].connectedUsers = sharing[p].connectedUsers

C1_Deduplicated == []NoDuplicateMessageIds /\ [][ProcessedDeliveryIgnored]_vars

\* a message of the other peer is about to be delivered to a peer for the
\* second time, after that peer's roster entry for the sender has moved on
C1_Witness ==
  \E p \in Peers :
     /\ network[p] # << >>
     /\ Head(network[p]).ev.event = "message"
     /\ LET m == Head(network[p]).ev.payload
        IN /\ m.userId # p
           /\ m.messageId \in sharing[p].processedMessageIds
           /\ m.userId \in DOMAIN sharing[p].connectedUsers
           /\ "isRecording" \in DOMAIN sharing[p].connectedUsers[m.userId]
           /\ sharing[p].connectedUsers[m.userId].isRecording # m.isRecording

\* the peers whose current channel is subscribed to the session of peer p
Members(p) ==
  {q \in Peers : InSession(q) /\ sharing[q].sessionId = sharing[p].sessionId}

\* C2: once every broadcast is delivered and input has stopped, all peers
\* of a session show the same transcript text.
C2_TextsConverge ==
  Quiescent =>
    \A p \in Peers : InSession(p) =>
       \A q \in Members(p) : transcript[q].text = transcript[p].text

\* C3: once every broadcast is delivered, the roster of a subscribed peer has
\* exactly the peers subscribed to its session as keys, each with that peer's
\* current name and recording flag.
C3_RosterConverges ==
  Quiescent =>
    \A p \in Peers : InSession(p) =>
       /\ DOMAIN sharing[p].connectedUsers = Members(p)
       /\ \A q \in Members(p) :
             sharing[p].connectedUsers[q] =
               [name |-> sharing[q].userName,
                isRecording |-> transcript[q].isRecording]

\* C5: a user whose user_left a peer has processed is not in that peer's
\* roster until the peer processes a user_joined or a message of that user
\* (departed[p] is exactly the set of such users).
C5_DepartedStayAbsent ==
  \A p \in Peers : \A X \in departed[p] : X \notin DOMAIN sharing[p].connectedUsers

\* the event at the head of peer p's queue reaches a handler
Deliverable(p) ==
  /\ network[p] # << >>
  /\ Subscribed(channel[p], Head(network[p]).ch)

\* the roster entry an event of user X leaves for X
Announced(ev) ==
  IF ev.event = "user_joined"
  THEN [name |-> ev.payload.userName, isRecording |-> FALSE]
  ELSE [name |-> ev.payload.userName, isRecording |-> ev.payload.isRecording]

\* user_joined, or a message whose id peer p has not processed
Announces(p, ev) ==
  \/ ev.event = "user_joined"
  \/ /\ ev.event = "message"
     /\ ev.payload.messageId \notin sharing[p].processedMessageIds

\* the handler, applied to the event a peer is about to receive
HandlerSetsEntry ==
  \A p \in Peers :
     (Deliverable(p) /\ Announces(p, Head(network[p]).ev)) =>
        LET ev == Head(network[p]).ev
            X == ev.payload.userId
            before == sharing[p].connectedUsers
            after == OnEvent(Client(p), ev).connectedUsers
        IN /\ DOMAIN after = DOMAIN before \cup {X}
           /\ after[X] = Announced(ev)
           /\ \A Y \in DOMAIN before : Y # X => after[Y] = before[Y]

\* the whole delivery step: the effects that run in the same commit touch no
\* entry but the peer's own (a broadcast of its own sets its recording flag)
DeliverySetsEntry ==
  \A p \in Peers : \A again, rest \in BOOLEAN :
     (/\ Deliverable(p) /\ Announces(p, Head(network[p]).ev)
      /\ Deliver(p, again, TRUE, rest))
     => LET ev == Head(network[p]).ev
            X == ev.payload.userId
            before == sharing[p].connectedUsers
            after == sharing'[p].connectedUsers
        IN /\ DOMAIN after \cup {p} = DOMAIN before \cup {X, p}
           /\ X \in DOMAIN after
           /\ X # p => after[X] = Announced(ev)
           /\ \A Y \in DOMAIN before : (Y # X /\ Y # p) => after[Y] = before[Y]

\* C6: processing user_joined of X sets connectedUsers[X] to the announced
\* name with isRecording false, processing a message of X that is no
\* duplicate sets it to the message's name and flag, and no other entry
\* changes.
C6_EntrySet == []HandlerSetsEntry /\ [][DeliverySetsEntry]_vars

\* a peer is about to process a message of a user whose roster entry it
\* will change, while its roster holds another user as well
C6_Witness ==
  \E p \in Peers :
     /\ Deliverable(p)
     /\ Head(network[p]).ev.event = "message"
     /\ Announces(p, Head(network[p]).ev)
     /\ LET X == Head(network[p]).ev.payload.userId
        IN /\ X \in DOMAIN sharing[p].connectedUsers
           /\ sharing[p].connectedUsers[X] # Announced(Head(network[p]).ev)
           /\ DOMAIN sharing[p].connectedUsers # {X}

\* C7: a peer handles broadcasts of the session it is in only: the topic of
\* a subscribed channel that hands it an event of another peer is its
\* sessionId.
C7_OwnSessionOnly ==
  \A p \in Peers :
     (Deliverable(p) /\ Head(network[p]).ev.payload.userId # p) =>
        channel[p].chans[Head(network[p]).ch].topic = sharing[p].sessionId

\* C8: once input has stopped and everything is delivered, the last message
\* a peer in a session sent (latestMessageRef and isRecordingRef hold its text
\* and flag) carries the peer's current text and recording flag.
C8_LastSentIsCurrent ==
  Quiescent =>
    \A p \in Peers : (InSession(p) /\ sharing[p].lastBroadcastTimeRef > 0) =>
       /\ sharing[p].latestMessageRef = transcript[p].text
       /\ sharing[p].isRecordingRef = transcript[p].isRecording

\* peer p changes its text itself
LocalInput(p) ==
  \/ \E text \in Texts \cup {EmptyText} :
        RecognizerResult(p, text, TRUE) \/ HandleTextChange(p, text, TRUE)
  \/ HandleReset(p, TRUE)

\* the entry a step appended to peer p's messages, if it comes last
Appended(p) ==
  /\ Len(sharing'[p].messages) > Len(sharing[p].messages)
  /\ Last(sharing'[p].messages).userId # p
  /\ Last(sharing'[p].messages).text # EmptyText

RemoteTextApplied ==
  \A p \in Peers : Appended(p) => transcript'[p].text = Last(sharing'[p].messages).text

\* a text that is not the peer's input is the text of another user's entry
\* that was last in the peer's messages during the step
OwnEntryNeverApplied ==
  \A p \in Peers :
     (transcript'[p].text # transcript[p].text /\ ~LocalInput(p)) =>
        \E i \in DOMAIN sharing'[p].messages :
           /\ i >= Len(sharing[p].messages)
           /\ sharing'[p].messages[i].userId # p
           /\ sharing'[p].messages[i].text = transcript'[p].text

\* C9: when a delivery leaves a message of another user with non-empty text
\* last in a peer's messages, the peer's transcript text becomes that text;
\* apart from the peer's own input its text changes to the text of another
\* user's entry only, so an entry of its own never overwrites it.
C9_LastWriterWins == [][RemoteTextApplied /\ OwnEntryNeverApplied]_vars

\* a peer holding a text of its own is about to receive a different,
\* non-empty text of the other peer
C9_Witness ==
  \E p \in Peers :
     /\ Deliverable(p)
     /\ Head(network[p]).ev.event = "message"
     /\ LET m == Head(network[p]).ev.payload
        IN /\ m.userId # p
           /\ m.messageId \notin sharing[p].processedMessageIds
           /\ m.text # EmptyText
           /\ transcript[p].text # EmptyText
           /\ transcript[p].text # m.text
           /\ \E i \in DOMAIN sharing[p].messages : sharing[p].messages[i].userId = p

\* C4: when a recognizer fires its end event, the adapter starts it again
\* if the hook's recording flag is true at that moment, and does not if the
\* flag is false.
C4_RestartIffRecording ==
  [][\A i \in 1..MaxInstances :
       RecognitionEnd(i) =>
          (adapter'.instances[i].status = "listening" <=> adapter.isRecording)]_vars

\* the first alternatives of results[from ..], the last result first
RECURSIVE FirstAlternatives(_, _)
FirstAlternatives(results, from) ==
  IF Len(results) <= from THEN << >>
  ELSE FirstAlternatives(SubSeq(results, 1, Len(results) - 1), from)
       \o Last(results).alternatives[1]

\* C10: the text a result event leaves is the concatenation, in order, of
\* the first alternative's transcript of results[resultIndex ..], interim or
\* final (lastEvent is the result event that set the text).
C10_TextIsConcatenation ==
  adapter.lastEvent # NoEvent =>
     adapter.text =
       FirstAlternatives(adapter.lastEvent.results, adapter.lastEvent.resultIndex)

\* a result event with resultIndex 1 whose two results, one interim and one
\* final, have two alternatives each has set the text
C10_Witness ==
  /\ adapter.lastEvent # NoEvent
  /\ adapter.lastEvent.resultIndex = 1
  /\ Len(adapter.lastEvent.results) = 2
  /\ \A n \in 1..2 : Len(adapter.lastEvent.results[n].alternatives) = 2
  /\ adapter.lastEvent.results[1].isFinal # adapter.lastEvent.results[2].isFinal
  /\ adapter.lastEvent.results[1].alternatives[1]
       # adapter.lastEvent.results[2].alternatives[1]
  /\ adapter.text # EmptyText

\* C11: in the buffering adapter, when the final result event of an
\* utterance follows interim result events of it, the text is the text from
\* before the utterance joined with the final transcript: the final once, and
\* nothing of the interim transcripts it supersedes.
C11_FinalReplacesInterim ==
  [][\A i \in 1..MaxInstances, event \in BufferEvents :
       (/\ buffer.run.n > 0
        /\ AllResults(event, TRUE)
        /\ BufferResult(i, event))
       => buffer'.text =
            JoinText(buffer.run.start,
                     TranscribeBuffered(event.results, event.resultIndex,
                                        TRUE, EmptyText))]_vars

\* C12: when recording stops (stopRecording while recording, or a recognizer
\* ending while the hook is not recording) the text is left as it is and the
\* 30-second timer that will clear it is scheduled; and when the timer fires
\* with recording off, the text becomes the empty string.
C12_ClearedAfterStop ==
  [][/\ (StopRecording /\ adapter.isRecording) =>
           /\ adapter'.text = adapter.text
           /\ adapter'.timer = Armed(FALSE)
     /\ \A i \in 1..MaxInstances :
           (RecognitionEnd(i) /\ ~adapter.isRecording) =>
              /\ adapter'.text = adapter.text
              /\ adapter'.timer = Armed(FALSE)
     /\ (TextTimeout /\ ~adapter.isRecording) => adapter'.text = EmptyText]_vars

\* C13 as claimed: no event received from the session channel changes a
\* peer's text or recording flag.
C13_OwnedByPeer ==
  [][\A p \in Peers, again \in BOOLEAN :
       Deliver(p, again, TRUE, TRUE) => transcript' = transcript]_vars

\* C13, amended: an event received from the session channel never changes a
\* recording flag nor another peer's text, and it changes the receiver's text
\* only if it is a message of another user with a non-empty text, to that
\* text.
C13_OnlyRemoteTextApplied ==
  [][\A p \in Peers, again \in BOOLEAN :
       Deliver(p, again, TRUE, TRUE) =>
          /\ \A q \in Peers : transcript'[q].isRecording = transcript[q].isRecording
          /\ \A q \in Peers \ {p} : transcript'[q].text = transcript[q].text
          /\ transcript'[p].text # transcript[p].text =>
                LET ev == Head(network[p]).ev
                IN /\ ev.event = "message"
                   /\ ev.payload.userId # p
                   /\ ev.payload.text # EmptyText
                   /\ transcript'[p].text = ev.payload.text]_vars

\* a peer that is recording and has a text is about to receive a message of
\* the other peer with a different non-empty text
C13_Witness ==
  \E p \in Peers :
     /\ Deliverable(p)
     /\ Head(network[p]).ev.event = "message"
     /\ Head(network[p]).ev.payload.userId # p
     /\ Head(network[p]).ev.payload.messageId \notin sharing[p].processedMessageIds
     /\ Head(network[p]).ev.payload.text \notin {EmptyText, transcript[p].text}
     /\ transcript[p].isRecording
     /\ transcript[p].text # EmptyText

\* C14: once disconnectSession has completed, sessionId is the empty string,
\* messages and connectedUsers are empty and the channel reference is null;
\* and no event delivered after that changes any of the four.
C14_NothingRetained ==
  [][\A p \in Peers :
       /\ (sharing[p].sessionId # "" /\ sharing'[p].sessionId = "") =>
             /\ sharing'[p].messages = << >>
             /\ sharing'[p].connectedUsers = EmptyMap
             /\ sharing'[p].sessionChannelRef = NullChannel
       /\ \A heard, rest \in BOOLEAN :
             (/\ sharing[p].sessionId = ""
              /\ "disconnect" \notin channel[p].pend
              /\ Deliver(p, FALSE, heard, rest))
             => /\ sharing'[p].sessionId = ""
                /\ sharing'[p].messages = << >>
                /\ sharing'[p].connectedUsers = EmptyMap
                /\ sharing'[p].sessionChannelRef = NullChannel]_vars

\* C15: of two consecutive messages a peer sent with the same isRecording
\* value, the second has a timestamp at least 1000 ms after the first.
C15_Throttled ==
  \A p \in Peers :
     (/\ Len(channel[p].sent) = 2
      /\ channel[p].sent[1].isRecording = channel[p].sent[2].isRecording)
     => channel[p].sent[2].timestamp - channel[p].sent[1].timestamp >= ThrottleMs

\* a peer has sent two messages with one flag a throttle window apart, and a
\* change of its text after the second was not sent
C15_Witness ==
  \E p \in Peers :
     /\ Len(channel[p].sent) = 2
     /\ channel[p].sent[1].isRecording = channel[p].sent[2].isRecording
     /\ channel[p].sent[2].timestamp - channel[p].sent[1].timestamp = ThrottleMs
     /\ channel[p].sent[2].timestamp = now
     /\ transcript[p].text # sharing[p].latestMessageRef

\* broadcastMessage, called by a peer on its subscribed channel with a flag
\* other than the last broadcast one, hands the relay a message with that
\* flag, whatever the text and however recent the last broadcast
StatusChangeSent ==
  \A p \in Peers : InSession(p) =>
     \A text \in Texts \cup {EmptyText} :
        LET c == Client(p)
            after == broadcastMessage(c, c, text, ~c.isRecordingRef, now, FALSE)
        IN /\ Len(after.out) = 1
           /\ after.out[1].ev.event = "message"
           /\ after.out[1].ev.payload.isRecording = ~c.isRecordingRef
           /\ after.out[1].ev.payload.timestamp = now

\* a toggle of recording by a peer in a session is sent in the same step
ToggleSent ==
  \A p \in Peers :
     (/\ InSession(p)
      /\ transcript[p].isRecording = sharing[p].isRecordingRef
      /\ ToggleRecording(p, TRUE))
     => /\ sharing'[p].isRecordingRef = transcript'[p].isRecording
        /\ Last(channel'[p].sent).isRecording = transcript'[p].isRecording
        /\ Last(channel'[p].sent).timestamp = now
        /\ network'[p] # << >>
        /\ Last(network'[p]).ev.event = "message"
        /\ Last(network'[p]).ev.payload.isRecording = transcript'[p].isRecording

\* C16: a change of recording status bypasses the throttle: broadcastMessage
\* called on a subscribed channel with an isRecording value other than the
\* last broadcast one sends a message, however recent the previous one.
C16_StatusBypassesThrottle == []StatusChangeSent /\ [][ToggleSent]_vars

\* a peer has sent two messages with different flags at the same time
C16_Witness ==
  \E p \in Peers :
     /\ Len(channel[p].sent) = 2
     /\ channel[p].sent[1].timestamp = channel[p].sent[2].timestamp
     /\ channel[p].sent[1].isRecording # channel[p].sent[2].isRecording

\* the text of the last entry of messages that is of userId, or the empty
\* text
LatestOwnText(messages, userId) ==
  LET own == {i \in DOMAIN messages : messages[i].userId = userId}
  IN IF own = {} THEN EmptyText
     ELSE messages[CHOOSE i \in own : \A j \in own : j <= i].text

\* C17: the message updateRecordingStatus sends when recording is toggled
\* carries the text of the user's latest message, the last entry of messages
\* with its userId, or the empty text when there is none.
C17_SendsLatestOwnText ==
  [][\A p \in Peers :
       (/\ InSession(p)
        /\ ToggleRecording(p, TRUE)
        /\ Len(network'[p]) > Len(network[p]))
       => Last(network'[p]).ev.payload.text
            = LatestOwnText(sharing[p].messages, p)]_vars

\* C18: updateUserName with a non-blank name, called in a session, sends no
\* user_left and leaves the session channel subscribed.
C18_RenameKeepsChannel ==
  [][\A p \in Peers, n \in Names, rest \in BOOLEAN :
       (InSession(p) /\ UpdateUserName(p, n, rest)) =>
          /\ InSession(p)'
          /\ \A q \in Peers :
                \A i \in (Len(network[q]) + 1)..Len(network'[q]) :
                   network'[q][i].ev.event # "user_left"]_vars

\* C19: the text timer never clears the text while recording: whenever its
\* callback empties a text, the hook's recording flag is false.
C19_NoClearWhileRecording ==
  [][(TextTimeout /\ adapter.text # EmptyText /\ adapter'.text = EmptyText)
       => ~adapter.isRecording]_vars

\* the error handlers, applied where a recognizer can report an error
ErrorHandled ==
  /\ \A i \in DOMAIN adapter.instances :
        adapter.instances[i].status # "idle" =>
           /\ ~onerror(adapter, i).isRecording
           /\ onerror(adapter, i).text = adapter.text
  /\ \A i \in DOMAIN buffer.instances :
        buffer.instances[i].status # "idle" =>
           \A error \in ErrorKinds :
              /\ onerrorBuffered(buffer, error).text = buffer.text
              /\ onerrorBuffered(buffer, error).isRecording =
                   IF error = "no-speech" THEN buffer.isRecording ELSE FALSE

\* the steps in which a recognizer reports an error
ErrorStep ==
  /\ \A i \in 1..MaxInstances :
        RecognitionError(i) =>
           ~adapter'.isRecording /\ adapter'.text = adapter.text
  /\ \A i \in 1..MaxInstances, error \in ErrorKinds :
        BufferError(i, error) =>
           /\ buffer'.text = buffer.text
           /\ buffer'.isRecording =
                IF error = "no-speech" THEN buffer.isRecording ELSE FALSE

\* C20: after the error handler of a recognizer has run, the recording flag
\* is false and the text is as before; in the buffering adapter a no-speech
\* error leaves the flag as it was.
C20_ErrorEndsRecording == []ErrorHandled /\ [][ErrorStep]_vars

\* the buffering hook is recording and holds a text while a recognizer of
\* its can report an error
C20_Witness ==
  /\ buffer.isRecording
  /\ buffer.text # EmptyText
  /\ \E i \in DOMAIN buffer.instances : buffer.instances[i].status # "idle"

\* C21: a startRecording that fails changes nothing: without a recognizer,
\* or with a recognizer whose start() throws because it has not ended, the
\* recording flag, the text and the pending clear timer after the call are
\* the ones before it (and no recognizer is created, started or stopped)
StartFails(a) ==
  \/ a.recognition = 0
  \/ ~CanStart(a.instances[a.recognition])

C21_FailedStartChangesNothing ==
  StartFails(adapter) =>
    /\ startRecording(adapter).isRecording = adapter.isRecording
    /\ startRecording(adapter).text = adapter.text
    /\ startRecording(adapter).timer = adapter.timer
    /\ startRecording(adapter).instances = adapter.instances
    /\ ~adapter.isRecording => toggleRecording(adapter) = adapter

\* start() would throw while text is shown and its clear timer is pending
C21_Witness ==
  /\ adapter.recognition # 0
  /\ ~CanStart(adapter.instances[adapter.recognition])
  /\ adapter.timer.armed
  /\ adapter.text # EmptyText

\* no recognizer, text shown and its clear timer pending
C21_WitnessUnsupported ==
  /\ adapter.recognition = 0
  /\ adapter.timer.armed
  /\ adapter.text # EmptyText

\* the peer has no session, or the channel of its session (the last one it
\* opened) has not reported SUBSCRIBED yet and no other channel of the peer
\* is subscribed
NotYetLive(p) ==
  \/ sharing[p].sessionId = ""
  \/ /\ channel[p].chans # << >>
     /\ Last(channel[p].chans).status = "joining"
     /\ \A k \in DOMAIN channel[p].chans : ~Subscribed(channel[p], k)

\* the call that turned client c into d sent nothing and left the messages,
\* the roster and the three last-broadcast refs alone
NothingBroadcast(c, d) ==
  /\ d.out = << >>
  /\ d.messages = c.messages
  /\ d.connectedUsers = c.connectedUsers
  /\ d.latestMessageRef = c.latestMessageRef
  /\ d.isRecordingRef = c.isRecordingRef
  /\ d.lastBroadcastTimeRef = c.lastBroadcastTimeRef

\* C22: outside a live session broadcastMessage, updateTranscription and
\* updateRecordingStatus are no-ops: whenever a peer has no session id or its
\* channel is not subscribed yet, a call of any of the three, with any text
\* and any recording status, sends nothing and leaves messages,
\* connectedUsers and the last-broadcast text, status and time unchanged
C22_NoOpOutsideSession ==
  \A p \in Peers : NotYetLive(p) =>
    \A text \in Texts \cup {EmptyText}, isRecording, rest \in BOOLEAN :
       LET c == Client(p)
       IN /\ NothingBroadcast(c, broadcastMessage(c, c, text, isRecording, now, rest))
          /\ NothingBroadcast(c, updateTranscription(c, c, text, now, rest))
          /\ NothingBroadcast(c, updateRecordingStatus(c, c, isRecording, now, rest))

\* the last-broadcast refs are the text and the status of the last message
\* the peer handed to its channel
RefsAreLastSent ==
  \A p \in Peers : channel[p].sent # << >> =>
     /\ Last(channel[p].sent).text = sharing[p].latestMessageRef
     /\ Last(channel[p].sent).isRecording = sharing[p].isRecordingRef

\* a call with the last broadcast text and status sends nothing, however long
\* ago the last broadcast was
SameCallSendsNothing ==
  \A p \in Peers : (InSession(p) /\ channel[p].sent # << >>) =>
     \A rest \in BOOLEAN :
        LET c == Client(p)
            sent == Last(c.sent)
        IN /\ NothingBroadcast(c, broadcastMessage(c, c, sent.text,
                                                   sent.isRecording, now, rest))
           /\ NothingBroadcast(c, updateTranscription(c, c, sent.text, now, rest))
           /\ NothingBroadcast(c, updateRecordingStatus(c, c, sent.isRecording,
                                                        now, rest))

\* C23: a peer never sends two consecutive messages that are identical in
\* both text and isRecording: of two messages it handed to its channel one
\* after the other, the second differs from the first in its text or in its
\* recording status, and a call whose text is the last broadcast text and
\* whose isRecording is the last broadcast status sends nothing
C23_NoRepeatedMessage ==
  /\ \A p \in Peers : Len(channel[p].sent) = 2 =>
        \/ channel[p].sent[1].text # channel[p].sent[2].text
        \/ channel[p].sent[1].isRecording # channel[p].sent[2].isRecording
  /\ RefsAreLastSent
  /\ SameCallSendsNothing

\* a peer in a session has sent two messages, the throttle window of the
\* second is over, and its text and status are still the ones it sent
C23_Witness ==
  \E p \in Peers :
     /\ InSession(p)
     /\ Len(channel[p].sent) = 2
     /\ now - sharing[p].lastBroadcastTimeRef >= ThrottleMs
     /\ transcript[p].text = sharing[p].latestMessageRef
     /\ transcript[p].isRecording = sharing[p].isRecordingRef

\* joinSession("") applied to any reachable state of a peer: no channel is
\* opened or removed, nothing is sent, and the session id, the roster, the
\* messages, the processed ids and the channel reference are as before
EmptyIdRejected ==
  \A p \in Peers :
     LET c == Client(p)
         d == joinSession(c, "")
     IN /\ d.sessionId = c.sessionId
        /\ d.connectedUsers = c.connectedUsers
        /\ d.messages = c.messages
        /\ d.processedMessageIds = c.processedMessageIds
        /\ d.sessionChannelRef = c.sessionChannelRef
        /\ d.chans = c.chans
        /\ d.out = << >>

\* a step that is joinSession("") leaves the peer, its channels and every
\* queue as they were
EmptyIdStep ==
  \A p \in Peers, rest \in BOOLEAN :
     JoinSession(p, "", rest) =>
        /\ sharing' = sharing
        /\ channel' = channel
        /\ network' = network

\* C24: joinSession called with an empty id is rejected: it leaves
\* sessionId, connectedUsers, messages, the set of processed ids and the
\* current channel unchanged (the error it reports is a toast, which is not
\* part of the state)
C24_EmptyIdRejected == []EmptyIdRejected /\ [][EmptyIdStep]_vars

\* a peer in a session, with a message received and its id processed, that
\* can call joinSession
C24_Witness ==
  \E p \in Peers :
     /\ InSession(p)
     /\ sharing[p].messages # << >>
     /\ sharing[p].processedMessageIds # {}
     /\ used < MaxSteps
     /\ Len(channel[p].chans) < MaxChans
     /\ "cleanup" \notin channel[p].pend

\* the peer has no session id, or none of its channels is subscribed
NoLiveChannel(p) ==
  \/ sharing[p].sessionId = ""
  \/ \A k \in DOMAIN channel[p].chans : ~Subscribed(channel[p], k)

\* disconnectSession called without a session id or without a subscribed
\* channel sends nothing, has no continuation pending and changes nothing
DisconnectGuarded ==
  \A p \in Peers : NoLiveChannel(p) =>
     \A rest \in BOOLEAN :
        LET c == Client(p)
            d == disconnectSession(c, rest)
        IN /\ d.out = << >>
           /\ d.pend = c.pend
           /\ d.chans = c.chans
           /\ \A f \in SharingFields : d[f] = c[f]

\* a step that clears the session id of a peer follows the send of its
\* user_left (in this step, or in the step that left the continuation
\* pending) and removes the channel in the same step; while the continuation
\* is pending the session id, the messages, the roster and the channel are
\* as before
DisconnectOrdered ==
  \A p \in Peers :
     /\ (sharing[p].sessionId # "" /\ sharing'[p].sessionId = "") =>
           /\ \/ "disconnect" \in channel[p].pend
              \/ \E i \in DOMAIN network'[p] :
                    /\ i > Len(network[p])
                    /\ network'[p][i].ev.event = "user_left"
                    /\ network'[p][i].ev.payload.userId = p
           /\ sharing'[p].messages = << >>
           /\ sharing'[p].connectedUsers = EmptyMap
           /\ ~Subscribed(channel'[p], sharing[p].sessionChannelRef)
     /\ \A rest \in BOOLEAN :
           (DisconnectSession(p, rest) /\ "disconnect" \in channel'[p].pend) =>
              /\ sharing'[p] = sharing[p]
              /\ channel'[p].chans = channel[p].chans

\* C25: disconnectSession does nothing when there is no session id or no
\* subscribed channel; otherwise user_left is sent before the channel is
\* removed, and sessionId, messages and connectedUsers are cleared only
\* after that send has completed
C25_DisconnectInOrder == []DisconnectGuarded /\ [][DisconnectOrdered]_vars

\* Spec reaches the state SessionSpec starts in: this invariant fails
JoinedNotReached == ~Joined
====
